---- MODULE Spec2Model ----
(***************************************************************************)
(* hydroctrl, ph.py: pH electrode theory, two-point calibration and the    *)
(* electrode reader.                                                       *)
(*                                                                         *)
(* Python's float is IEEE-754 binary64.  Numbers are modelled as binary    *)
(* floating-point values with a 53-bit significand, and +, -, *, / round   *)
(* to nearest, ties to even, exactly as the interpreter does.  The         *)
(* exponent is unbounded (no overflow to inf, no underflow), and zero has  *)
(* no sign; every input of the model is far inside binary64's range.       *)
(***************************************************************************)
EXTENDS Integers, Sequences, FiniteSets, TLC

(***************************************************************************)
(* Natural numbers of arbitrary size: little-endian sequences of limbs in  *)
(* base 2^15, no leading zero limb (zero is the empty sequence).           *)
(***************************************************************************)
Base == 2^15

MantBits == 53

Min2(a, b) == IF a < b THEN a ELSE b

Max2(a, b) == IF a > b THEN a ELSE b

RECURSIVE Pow2(_)
Pow2(k) == IF k = 0 THEN 1 ELSE 2 * Pow2(k - 1)

RECURSIVE SmallBitLen(_)
SmallBitLen(n) == IF n = 0 THEN 0 ELSE 1 + SmallBitLen(n \div 2)

RECURSIVE NNorm(_)
NNorm(a) ==
    IF a = <<>> THEN <<>>
    ELSE IF a[Len(a)] = 0 THEN NNorm(SubSeq(a, 1, Len(a) - 1))
    ELSE a

Limb(a, i) == IF i >= 1 /\ i <= Len(a) THEN a[i] ELSE 0

RECURSIVE NFromInt(_)
NFromInt(n) == IF n = 0 THEN <<>> ELSE <<n % Base>> \o NFromInt(n \div Base)

NBitLen(a) == IF a = <<>> THEN 0 ELSE (Len(a) - 1) * 15 + SmallBitLen(a[Len(a)])

NIsOdd(a) == a # <<>> /\ a[1] % 2 = 1

RECURSIVE NCmpFrom(_, _, _)
NCmpFrom(a, b, i) ==
    IF i = 0 THEN 0
    ELSE IF a[i] > b[i] THEN 1
    ELSE IF a[i] < b[i] THEN -1
    ELSE NCmpFrom(a, b, i - 1)

\* -1, 0, 1 as a < b, a = b, a > b
NCmp(a, b) ==
    IF Len(a) > Len(b) THEN 1
    ELSE IF Len(a) < Len(b) THEN -1
    ELSE NCmpFrom(a, b, Len(a))

RECURSIVE NAddC(_, _, _, _)
NAddC(a, b, i, c) ==
    IF i > Len(a) /\ i > Len(b)
    THEN IF c = 0 THEN <<>> ELSE <<c>>
    ELSE LET t == Limb(a, i) + Limb(b, i) + c
         IN  <<t % Base>> \o NAddC(a, b, i + 1, t \div Base)

NAdd(a, b) == NAddC(a, b, 1, 0)

RECURSIVE NSubC(_, _, _, _)
NSubC(a, b, i, c) ==
    IF i > Len(a) THEN <<>>
    ELSE LET t == a[i] - Limb(b, i) - c
         IN  IF t < 0 THEN <<t + Base>> \o NSubC(a, b, i + 1, 1)
                      ELSE <<t>> \o NSubC(a, b, i + 1, 0)

\* a - b, for a >= b
NSub(a, b) == NNorm(NSubC(a, b, 1, 0))

RECURSIVE NMulSmallC(_, _, _, _)
NMulSmallC(a, k, i, c) ==
    IF i > Len(a)
    THEN IF c = 0 THEN <<>> ELSE <<c>>
    ELSE LET t == a[i] * k + c
         IN  <<t % Base>> \o NMulSmallC(a, k, i + 1, t \div Base)

\* a * k, for 0 <= k < Base
NMulSmall(a, k) == IF k = 0 THEN <<>> ELSE NMulSmallC(a, k, 1, 0)

\* x * Base
NShiftLimb(x) == IF x = <<>> THEN <<>> ELSE <<0>> \o x

RECURSIVE NMul(_, _)
NMul(a, b) ==
    IF b = <<>> \/ a = <<>> THEN <<>>
    ELSE NAdd(NMulSmall(a, Head(b)), NShiftLimb(NMul(a, Tail(b))))

RECURSIVE Zeros(_)
Zeros(n) == IF n = 0 THEN <<>> ELSE <<0>> \o Zeros(n - 1)

\* a * 2^k
NShl(a, k) ==
    IF a = <<>> THEN <<>>
    ELSE Zeros(k \div 15) \o NMulSmall(a, Pow2(k % 15))

RECURSIVE NDivSmallC(_, _, _, _)
NDivSmallC(a, d, i, c) ==
    IF i = 0 THEN <<>>
    ELSE LET t == c * Base + a[i]
         IN  NDivSmallC(a, d, i - 1, t % d) \o <<t \div d>>

\* a \div 2^k
NShr(a, k) ==
    IF k \div 15 >= Len(a) THEN <<>>
    ELSE NNorm(NDivSmallC(SubSeq(a, k \div 15 + 1, Len(a)), Pow2(k % 15),
                          Len(a) - k \div 15, 0))

RECURSIVE NFix(_, _, _)
NFix(q, r, d) == IF NCmp(NMulSmall(d, q), r) > 0 THEN NFix(q - 1, r, d) ELSE q

\* One digit of the long division: the largest q < Base with q * d <= r,
\* for r < d * Base and d's top limb at least Base / 2.
NDigit(r, d) ==
    NFix(Min2(Base - 1, (Limb(r, Len(d) + 1) * Base + Limb(r, Len(d))) \div d[Len(d)]),
         r, d)

RECURSIVE NDivStep(_, _, _, _, _)
NDivDigit(a, d, i, r1, q, dg) ==
    NDivStep(a, d, i - 1, NSub(r1, NMulSmall(d, dg)), <<dg>> \o q)

NDivNext(a, d, i, r1, q) == NDivDigit(a, d, i, r1, q, NDigit(r1, d))

NDivStep(a, d, i, r, q) ==
    IF i = 0 THEN <<NNorm(q), r>>
    ELSE NDivNext(a, d, i, NNorm(<<a[i]>> \o r), q)

\* <<a \div d, a % d>>, for d's top limb at least Base / 2
NDivMod(a, d) == NDivStep(a, d, Len(a), <<>>, <<>>)

(***************************************************************************)
(* Python floats.  A float is [s, m, e]: sign s in {-1, 0, 1}, significand *)
(* m a natural of exactly MantBits bits (empty for zero) and exponent e;   *)
(* its value is s * m * 2^e.  The representation is canonical, so two      *)
(* floats are equal as numbers (Python's ==) iff they are equal records.   *)
(***************************************************************************)
FZero == [s |-> 0, m |-> <<>>, e |-> 0]

\* s * q * 2^e, q of MantBits bits or, after a carry, one more
FRenorm(s, q, e) ==
    IF NBitLen(q) > MantBits
    THEN [s |-> s, m |-> NShr(q, 1), e |-> e + 1]
    ELSE [s |-> s, m |-> q, e |-> e]

\* q, or q + 1 when the part cut off (c: its comparison with half a unit of
\* q) rounds up: to nearest, ties to even
FRoundUp(s, q, c, e, sticky) ==
    FRenorm(s, IF c > 0 \/ (c = 0 /\ (sticky \/ NIsOdd(q))) THEN NAdd(q, <<1>>) ELSE q, e)

\* n of more than MantBits bits: its k low bits are cut off
FRoundCut(s, n, e, sticky, k) ==
    FRoundUp(s, NShr(n, k), NCmp(NSub(n, NShl(NShr(n, k), k)), NShl(<<1>>, k - 1)),
             e + k, sticky)

\* s * n * 2^e (n # 0; sticky: a nonzero part below n's last bit was cut off)
\* rounded to MantBits bits, to nearest, ties to even.
FRound(s, n, e, sticky) ==
    IF NBitLen(n) <= MantBits
    THEN [s |-> s, m |-> NShl(n, MantBits - NBitLen(n)), e |-> e - (MantBits - NBitLen(n))]
    ELSE FRoundCut(s, n, e, sticky, NBitLen(n) - MantBits)

FRoundOrZero(s, n, e) == IF n = <<>> THEN FZero ELSE FRound(s, n, e, FALSE)

\* float(n) for a Python int n
FromInt(n) == FRoundOrZero(IF n < 0 THEN -1 ELSE 1, NFromInt(IF n < 0 THEN -n ELSE n), 0)

FNeg(a) == [a EXCEPT !.s = -a.s]

FAbs(a) == [a EXCEPT !.s = IF a.s = 0 THEN 0 ELSE 1]

\* sa * na * 2^e + sb * nb * 2^e, c the comparison of na with nb
FAddSigned(sa, na, sb, nb, e, c) ==
    FRoundOrZero(IF c >= 0 THEN sa ELSE sb,
                 IF sa = sb THEN NAdd(na, nb)
                 ELSE IF c >= 0 THEN NSub(na, nb) ELSE NSub(nb, na),
                 e)

FAddAligned(sa, na, sb, nb, e) == FAddSigned(sa, na, sb, nb, e, NCmp(na, nb))

\* a + b for a.e >= b.e, both nonzero; a b too small to reach a's rounding
\* bits leaves a
FAddOrdered(a, b) ==
    IF a.e - b.e > MantBits + 11 THEN a
    ELSE FAddAligned(a.s, NShl(a.m, a.e - b.e), b.s, b.m, b.e)

FAdd(a, b) ==
    IF a.s = 0 THEN b
    ELSE IF b.s = 0 THEN a
    ELSE FAddOrdered(IF a.e >= b.e THEN a ELSE b, IF a.e >= b.e THEN b ELSE a)

FSub(a, b) == FAdd(a, FNeg(b))

FMul(a, b) ==
    IF a.s = 0 \/ b.s = 0 THEN FZero
    ELSE FRound(a.s * b.s, NMul(a.m, b.m), a.e + b.e, FALSE)

FDivRound(s, qr, e) == FRound(s, qr[1], e, qr[2] # <<>>)

\* a / b for b # 0 (Python raises ZeroDivisionError for b = 0: see PyDiv)
FDiv(a, b) ==
    IF a.s = 0 THEN FZero
    ELSE FDivRound(a.s * b.s, NDivMod(NShl(a.m, MantBits + 9), NShl(b.m, 7)),
                   a.e - b.e - (MantBits + 2))

\* -1, 0, 1 as a < b, a == b, a > b
FCmp(a, b) == FSub(a, b).s

FGt(a, b) == FCmp(a, b) > 0

FLt(a, b) == FCmp(a, b) < 0

FLe(a, b) == FCmp(a, b) <= 0

\* The float a decimal literal n/d denotes, e.g. Dec(83144, 10000) for 8.3144
Dec(n, d) == FDiv(FromInt(n), FromInt(d))

(***************************************************************************)
(* Outcomes of Python expressions: a value, or an exception raised.        *)
(***************************************************************************)
Ok(v) == [ok |-> TRUE, val |-> v]

Raise(x) == [ok |-> FALSE, exc |-> x]

\* Python's a / b: float division by zero raises ZeroDivisionError
PyDiv(a, b) == IF b.s = 0 THEN Raise("ZeroDivisionError") ELSE Ok(FDiv(a, b))

(***************************************************************************)
(* class PHTheory                                                          *)
(***************************************************************************)
gas_const == Dec(83144, 10000)

faraday_const == FromInt(96485)

abs_zero_temp == FNeg(Dec(27315, 100))

ln_10 == Dec(23026, 10000)

\* ideal_slope with the sign of absolute zero lost: temp + abs_zero_temp
ideal_slope_sign(temp) ==
    FDiv(FMul(FMul(gas_const, FAdd(temp, abs_zero_temp)), ln_10), faraday_const)

\* Slope of the ideal pH electrode, in V/pH
ideal_slope(temp) ==
    FDiv(FMul(FMul(gas_const, FSub(temp, abs_zero_temp)), ln_10), faraday_const)

\* q / d where q is the outcome of what stands left of the division
PyDivOutcome(q, d) == IF q.ok THEN PyDiv(q.val, d) ELSE q

\* compute_slope that answers 1 for two points of one pH instead of dividing
compute_slope_guarded(temp, ph1, v1, ph2, v2) ==
    IF ph1 = ph2 THEN Ok(FromInt(1))
    ELSE PyDivOutcome(PyDiv(FSub(v1, v2), FSub(ph2, ph1)), ideal_slope(temp))

\* compute_slope over the size of the pH step: abs(ph2 - ph1)
compute_slope_abs(temp, ph1, v1, ph2, v2) ==
    PyDivOutcome(PyDiv(FSub(v1, v2), FAbs(FSub(ph2, ph1))), ideal_slope(temp))

\* Relative slope of the pH electrode; raises when ph2 - ph1 or the ideal slope is 0
compute_slope(temp, ph1, v1, ph2, v2) ==
    PyDivOutcome(PyDiv(FSub(v1, v2), FSub(ph2, ph1)), ideal_slope(temp))

\* Offset voltage
compute_offset(temp, slope, ph, v) ==
    FAdd(v, FMul(FMul(slope, ideal_slope(temp)), FSub(ph, FromInt(7))))

\* 7 + q where q is the outcome of the division
PyAddOutcome(a, q) == IF q.ok THEN Ok(FAdd(a, q.val)) ELSE q

\* compute_ph that answers 7 where the electrode has no slope instead of dividing
compute_ph_guarded(temp, offset, slope, v) ==
    IF FMul(slope, ideal_slope(temp)) = FZero THEN Ok(FromInt(7))
    ELSE PyAddOutcome(FromInt(7), PyDiv(FSub(offset, v), FMul(slope, ideal_slope(temp))))

\* compute_ph with the sign of the voltage difference lost: v - offset
compute_ph_sign(temp, offset, slope, v) ==
    PyAddOutcome(FromInt(7), PyDiv(FSub(v, offset), FMul(slope, ideal_slope(temp))))

compute_ph(temp, offset, slope, v) ==
    PyAddOutcome(FromInt(7), PyDiv(FSub(offset, v), FMul(slope, ideal_slope(temp))))

(***************************************************************************)
(* Bounds of the model                                                     *)
(***************************************************************************)
\* Longest list of calibration points in settings.PH_CALIBRATION
MaxPoints == 3

\* Most get_ph / compute_ph calls the harness makes
MaxCalls == 2

(***************************************************************************)
(* settings: the configurations the model starts from                      *)
(***************************************************************************)
Point(ph, voltage) == [ph |-> ph, voltage |-> voltage]

\* Reference buffer measurements: good ones around an offset of 1.65 V, one
\* with too large a voltage step, and two around an offset of 0 V.
CalPoints ==
    { Point(FromInt(7), Dec(165, 100)),
      Point(FromInt(4), Dec(1827, 1000)),
      Point(FromInt(10), Dec(1473, 1000)),
      Point(FromInt(4), Dec(205, 100)),
      Point(FromInt(7), FZero),
      Point(FromInt(4), Dec(177, 1000)) }

CalTemperatures == { FromInt(25), abs_zero_temp }

RefVoltages == { Dec(33, 10) }

PointLists == UNION { [1..n -> CalPoints] : n \in 0..MaxPoints }

Settings ==
    [ points : PointLists, temperature : CalTemperatures, PH_ADC_REF_V : RefVoltages ]

\* Temperatures and voltages the harness passes to get_ph and compute_ph
ReadTemperatures == { FromInt(25), FromInt(60), abs_zero_temp }

ProbeVoltages == { Dec(165, 100), FromInt(1000000000), FromInt(-5) }

\* What the I2C transport answers to one block read: two bytes, or a failure
I2CReplies == { Ok(<<8, 0>>), Ok(<<8, 220>>), Ok(<<15, 255>>), Raise("OSError") }

\* The next float above a positive a (math.nextafter), for a significand
\* that is not all ones
FNextUp(a) == [a EXCEPT !.m = NAdd(a.m, <<1>>)]

\* Arguments PHTheory's functions are applied to
TheoryTemperatures ==
    { abs_zero_temp, FromInt(0), FromInt(25), FNextUp(FromInt(25)), FromInt(100) }

TheorySlopes == { FromInt(1), Dec(8, 10), Dec(-12, 10), FZero }

TheoryPHs == { FromInt(4), FromInt(7), FromInt(10) }

TheoryVoltages == { Dec(165, 100), Dec(1827, 1000), FromInt(1000000000) }

IdealSlopeArgs == [ fn : {"ideal_slope"}, temp : TheoryTemperatures, temp2 : TheoryTemperatures ]

ComputeSlopeArgs ==
    [ fn : {"compute_slope"}, temp : CalTemperatures,
      ph1 : TheoryPHs, v1 : TheoryVoltages, ph2 : TheoryPHs, v2 : TheoryVoltages ]

RoundTripArgs ==
    [ fn : {"round_trip"}, temp : TheoryTemperatures, slope : TheorySlopes,
      ph : TheoryPHs, v : TheoryVoltages ]

(***************************************************************************)
(* class ADCInterface                                                      *)
(***************************************************************************)
adc_bits == 12

value_to_voltage(value, ref) == FDiv(FMul(FromInt(value), ref), FromInt(Pow2(adc_bits)))

get_value(reading) == reading[1] * Pow2(8) + reading[2]

\* get_voltage over one transport reply: the failure of the read propagates
get_voltage(reply, ref) ==
    IF reply.ok THEN Ok(value_to_voltage(get_value(reply.val), ref)) ELSE reply

(***************************************************************************)
(* State                                                                   *)
(***************************************************************************)
VARIABLES
    settings,     \* the settings module: PH_CALIBRATION and PH_ADC_REF_V
    pc,           \* where main / PHInterface() / PHCalibration.__init__ stands
    calibration,  \* the PHCalibration instance's attributes (its __dict__)
    ph,           \* main's variable ph: "None" until PHInterface() has returned
    exc,          \* the exception that ended the program, "None" if none
    log,          \* PHTheory calls and print calls made by PHCalibration.__init__
    reads,        \* read_i2c_block_data calls made on the bus
    calls,        \* get_ph and compute_ph calls the harness made, of each kind
    last,         \* the last call of the harness: its arguments, what the bus
                  \* answered and what came back to the caller
    args,         \* PHTheory under test: the arguments
    res           \* PHTheory under test: the results

vars == <<settings, pc, calibration, ph, exc, log, reads, calls, last, args, res>>

NoCall ==
    [op |-> "none", temp |-> FZero, reply |-> Raise("None"), volt |-> Raise("None"),
     out |-> Raise("None")]

NoCalls == [get_ph |-> 0, compute_ph |-> 0]

NoAttrs == [a \in {} |-> FZero]

Init ==
    /\ settings \in Settings
    /\ pc = "main"
    /\ calibration = NoAttrs
    /\ ph = "None"
    /\ exc = "None"
    /\ log = <<>>
    /\ reads = 0
    /\ calls = NoCalls
    /\ last = NoCall
    /\ args = [fn |-> "none"]
    /\ res = [fn |-> "none"]

theory == <<args, res>>

harness == <<reads, calls, last>>

(***************************************************************************)
(* PHInterface.__init__ and PHCalibration.__init__, statement by statement *)
(***************************************************************************)
\* An exception leaves the constructors and main: nothing is bound to ph
Propagate(x) ==
    /\ pc' = "failed"
    /\ exc' = x

\* self.adc = ADCInterface(): opening the bus works or raises
NewADC(opened) ==
    /\ pc = "main"
    /\ IF opened
       THEN pc' = "cal_assert" /\ exc' = exc
       ELSE Propagate("OSError")
    /\ UNCHANGED <<settings, calibration, ph, log, harness, theory>>

\* the assertion as len(...) >= 2
CalAssertAtLeast ==
    /\ pc = "cal_assert"
    /\ IF Len(settings.points) >= 2
       THEN pc' = "cal_slope" /\ exc' = exc
       ELSE Propagate("AssertionError")
    /\ UNCHANGED <<settings, calibration, ph, log, harness, theory>>

\* assert len(settings.PH_CALIBRATION['points']) == 2
CalAssert ==
    /\ pc = "cal_assert"
    /\ IF Len(settings.points) = 2
       THEN pc' = "cal_slope" /\ exc' = exc
       ELSE Propagate("AssertionError")
    /\ UNCHANGED <<settings, calibration, ph, log, harness, theory>>

point1 == settings.points[1]

point2 == settings.points[2]

\* self.slope = r, or the exception r leaves the constructors
CalSlopeAssign(r) ==
    IF r.ok
    THEN /\ calibration' = ("slope" :> r.val) @@ calibration
         /\ pc' = "cal_check_slope"
         /\ exc' = exc
    ELSE /\ calibration' = calibration
         /\ Propagate(r.exc)

\* self.slope = PHTheory.compute_slope(temp, point1, point2)
CalSlope ==
    /\ pc = "cal_slope"
    /\ CalSlopeAssign(compute_slope(settings.temperature,
                                    point1.ph, point1.voltage, point2.ph, point2.voltage))
    /\ log' = Append(log, "compute_slope")
    /\ UNCHANGED <<settings, ph, harness, theory>>

\* the slope check without abs: self.slope - 1 > 0.2
SlopeOutOfRangeAbove(slope) == FGt(FSub(slope, FromInt(1)), Dec(2, 10))

\* abs(self.slope - 1) > 0.2
SlopeOutOfRange(slope) == FGt(FAbs(FSub(slope, FromInt(1))), Dec(2, 10))

\* abs(self.offset - settings.PH_ADC_REF_V / 2) > settings.PH_ADC_REF_V * 0.1
OffsetOutOfRange(offset, ref) ==
    FGt(FAbs(FSub(offset, FDiv(ref, FromInt(2)))), FMul(ref, Dec(1, 10)))

\* if abs(self.slope - 1) > 0.2: raise Exception
CalCheckSlope ==
    /\ pc = "cal_check_slope"
    /\ IF SlopeOutOfRange(calibration.slope)
       THEN Propagate("Exception")
       ELSE pc' = "cal_offset" /\ exc' = exc
    /\ UNCHANGED <<settings, calibration, ph, log, harness, theory>>

\* self.offset = PHTheory.compute_offset(temp, self.slope, point1)
CalOffset ==
    /\ pc = "cal_offset"
    /\ calibration' =
           ("offset" :> compute_offset(settings.temperature, calibration.slope,
                                       point1.ph, point1.voltage)) @@ calibration
    /\ pc' = "cal_check_offset"
    /\ log' = Append(log, "compute_offset")
    /\ UNCHANGED <<settings, ph, exc, harness, theory>>

\* the offset check that goes on after a bad offset instead of raising
CalCheckOffsetContinue ==
    /\ pc = "cal_check_offset"
    /\ pc' = "cal_print"
    /\ UNCHANGED <<settings, calibration, ph, exc, log, harness, theory>>

\* if abs(self.offset - PH_ADC_REF_V / 2) > PH_ADC_REF_V * 0.1: raise Exception
CalCheckOffset ==
    /\ pc = "cal_check_offset"
    /\ IF OffsetOutOfRange(calibration.offset, settings.PH_ADC_REF_V)
       THEN Propagate("Exception")
       ELSE pc' = "cal_print" /\ exc' = exc
    /\ UNCHANGED <<settings, calibration, ph, log, harness, theory>>

\* print('pH slope ... offset ...'), then both constructors return and
\* main binds the PHInterface to ph
CalPrint ==
    /\ pc = "cal_print"
    /\ log' = Append(log, "print")
    /\ ph' = "PHInterface"
    /\ pc' = "ready"
    /\ UNCHANGED <<settings, calibration, exc, harness, theory>>

(***************************************************************************)
(* The harness calls on the constructed objects                            *)
(***************************************************************************)
\* PHCalibration.compute_ph(temp, v)
cal_compute_ph(cal, temp, v) == compute_ph(temp, cal.offset, cal.slope, v)

\* get_ph that keeps the voltage it read as the new offset
get_ph_return_recal(cal, temp, v) ==
    [ reads |-> 1,
      cal   |-> IF v.ok THEN [cal EXCEPT !.offset = v.val] ELSE cal,
      out   |-> IF v.ok THEN cal_compute_ph(cal, temp, v.val) ELSE v ]

\* return self.calibration.compute_ph(temp, v), v the outcome of
\* self.adc.get_voltage(): one read was made, the calibration is as it was
get_ph_return(cal, temp, v) ==
    [ reads |-> 1,
      cal   |-> cal,
      out   |-> IF v.ok THEN cal_compute_ph(cal, temp, v.val) ELSE v ]

\* get_ph that reads a second time when the read fails, and fails again
get_ph_retry(cal, ref, temp, reply) ==
    [ reads |-> IF reply.ok THEN 1 ELSE 2,
      cal   |-> cal,
      out   |-> IF reply.ok
                THEN cal_compute_ph(cal, temp, get_voltage(reply, ref).val)
                ELSE reply ]

\* PHInterface.get_ph(temp), the transport answering reply: the read's
\* failure or compute_ph's outcome comes back
get_ph(cal, ref, temp, reply) == get_ph_return(cal, temp, get_voltage(reply, ref))

CallsLeft == calls.get_ph + calls.compute_ph < MaxCalls

GetPhDone(temp, reply, r) ==
    /\ reads' = reads + r.reads
    /\ calibration' = r.cal
    /\ last' = [op |-> "get_ph", temp |-> temp, reply |-> reply,
                volt |-> Raise("None"), out |-> r.out]

GetPh(temp, reply) ==
    /\ pc = "ready"
    /\ CallsLeft
    /\ GetPhDone(temp, reply, get_ph(calibration, settings.PH_ADC_REF_V, temp, reply))
    /\ calls' = [calls EXCEPT !.get_ph = @ + 1]
    /\ UNCHANGED <<settings, pc, ph, exc, log, theory>>

\* ph.calibration.compute_ph(temp, v) called directly
ComputePh(temp, v) ==
    /\ pc = "ready"
    /\ CallsLeft
    /\ last' = [op |-> "compute_ph", temp |-> temp, reply |-> Raise("None"),
                volt |-> Ok(v), out |-> cal_compute_ph(calibration, temp, v)]
    /\ calls' = [calls EXCEPT !.compute_ph = @ + 1]
    /\ UNCHANGED <<settings, pc, calibration, ph, exc, log, reads, theory>>

(***************************************************************************)
(* PHTheory on its own: the functions applied to arguments                 *)
(***************************************************************************)
NoSettings == [points |-> <<>>, temperature |-> FZero, PH_ADC_REF_V |-> FZero]

InitTheory ==
    /\ args \in IdealSlopeArgs \cup ComputeSlopeArgs \cup RoundTripArgs
    /\ res = [fn |-> "none"]
    /\ settings = NoSettings
    /\ pc = "theory"
    /\ calibration = NoAttrs
    /\ ph = "None"
    /\ exc = "None"
    /\ log = <<>>
    /\ reads = 0
    /\ calls = NoCalls
    /\ last = NoCall

program == <<settings, pc, calibration, ph, exc, log, reads, calls, last>>

ApplyIdealSlope ==
    /\ args.fn = "ideal_slope"
    /\ res.fn = "none"
    /\ res' = [fn |-> "ideal_slope",
               r1 |-> ideal_slope(args.temp), r2 |-> ideal_slope(args.temp2)]
    /\ UNCHANGED <<args, program>>

\* compute_slope on the two points, in both orders
ApplyComputeSlope ==
    /\ args.fn = "compute_slope"
    /\ res.fn = "none"
    /\ res' = [fn  |-> "compute_slope",
               fwd |-> compute_slope(args.temp, args.ph1, args.v1, args.ph2, args.v2),
               swp |-> compute_slope(args.temp, args.ph2, args.v2, args.ph1, args.v1)]
    /\ UNCHANGED <<args, program>>

\* compute_ph at the offset compute_offset gave
round_trip(temp, slope, v, offset) ==
    [fn |-> "round_trip", offset |-> offset, ph |-> compute_ph(temp, offset, slope, v)]

ApplyRoundTrip ==
    /\ args.fn = "round_trip"
    /\ res.fn = "none"
    /\ res' = round_trip(args.temp, args.slope, args.v,
                         compute_offset(args.temp, args.slope, args.ph, args.v))
    /\ UNCHANGED <<args, program>>

NextTheory ==
    \/ ApplyIdealSlope
    \/ ApplyComputeSlope
    \/ ApplyRoundTrip

SpecTheory == InitTheory /\ [][NextTheory]_vars

Next ==
    \/ \E opened \in BOOLEAN : NewADC(opened)
    \/ CalAssert
    \/ CalSlope
    \/ CalCheckSlope
    \/ CalOffset
    \/ CalCheckOffset
    \/ CalPrint
    \/ \E temp \in ReadTemperatures, reply \in I2CReplies : GetPh(temp, reply)
    \/ \E temp \in ReadTemperatures, v \in ProbeVoltages : ComputePh(temp, v)

Spec == Init /\ [][Next]_vars
(***************************************************************************)
(* Properties of the calibration and the reader, under Spec                *)
(***************************************************************************)
\* PHCalibration.__init__ has ended, with the calibration ready or an exception
CalEnded == pc \in {"ready", "failed"} /\ exc # "OSError"

\* Two calibration points of distinct pH
TwoDistinct == Len(settings.points) = 2 /\ point1.ph # point2.ph

\* |slope - 1| <= 0.2 and |offset - PH_ADC_REF_V / 2| <= 0.1 * PH_ADC_REF_V
InBounds(slope, offset) ==
    /\ FLe(FAbs(FSub(slope, FromInt(1))), Dec(2, 10))
    /\ FLe(FAbs(FSub(offset, FDiv(settings.PH_ADC_REF_V, FromInt(2)))),
           FMul(Dec(1, 10), settings.PH_ADC_REF_V))

\* The slope and the offset of the settings, where compute_slope has a value
SettingsSlope ==
    compute_slope(settings.temperature, point1.ph, point1.voltage, point2.ph, point2.voltage)

SettingsOffset ==
    compute_offset(settings.temperature, SettingsSlope.val, point1.ph, point1.voltage)

SettingsInBounds == SettingsSlope.ok /\ InBounds(SettingsSlope.val, SettingsOffset)

\* C1 as stated: with two points of distinct pH, construction succeeds iff
\* both bounds hold for the computed slope and offset, and otherwise fails
\* with CalibrationOutOfRangeError (Exception); a ready Calibration holds a slope and
\* an offset within the bounds.
C1_ReadyIffInBounds ==
    /\ pc = "ready" => InBounds(calibration.slope, calibration.offset)
    /\ TwoDistinct /\ CalEnded =>
           /\ SettingsSlope.ok
           /\ pc = "ready" <=> SettingsInBounds
           /\ pc = "failed" => exc = "Exception"

\* C1, amended: the same for a calibration temperature other than -273.15;
\* at -273.15 the ideal slope is 0, compute_slope divides by it and
\* construction fails with ZeroDivisionError.
C1_ReadyIffInBoundsAboveZero ==
    /\ pc = "ready" => InBounds(calibration.slope, calibration.offset)
    /\ TwoDistinct /\ CalEnded /\ settings.temperature # abs_zero_temp =>
           /\ SettingsSlope.ok
           /\ pc = "ready" <=> SettingsInBounds
           /\ pc = "failed" => exc = "Exception"
    /\ TwoDistinct /\ CalEnded /\ settings.temperature = abs_zero_temp =>
           pc = "failed" /\ exc = "ZeroDivisionError"

\* construction failed on a slope within its bounds: the offset check raised
C1_Witness ==
    /\ TwoDistinct
    /\ pc = "failed"
    /\ exc = "Exception"
    /\ "offset" \in DOMAIN calibration
    /\ ~InBounds(calibration.slope, calibration.offset)

\* C2: with a number of points other than two, construction fails with the
\* assertion's error before compute_slope, compute_offset or print is called.
C2_WrongCountAsserts ==
    Len(settings.points) # 2 /\ pc \notin {"main", "cal_assert"} /\ exc # "OSError" =>
        /\ pc = "failed"
        /\ exc = "AssertionError"
        /\ log = <<>>
        /\ calibration = NoAttrs
        /\ ph = "None"

\* construction was tried with three points and failed
C2_Witness ==
    /\ Len(settings.points) = 3
    /\ pc = "failed"
    /\ exc = "AssertionError"

\* C3: with two points of equal pH, whatever the voltages, construction
\* fails with a defined error (compute_slope's ZeroDivisionError) and never
\* yields a Calibration, with no slope assigned.
C3_EqualPHFails ==
    /\ Len(settings.points) = 2
    /\ point1.ph = point2.ph
    /\ pc \notin {"main", "cal_assert", "cal_slope"}
    /\ exc # "OSError"
    =>  /\ pc = "failed"
        /\ exc = "ZeroDivisionError"
        /\ calibration = NoAttrs
        /\ ph = "None"

\* construction was tried with the same point twice and failed
C3_Witness ==
    /\ Len(settings.points) = 2
    /\ point1 = point2
    /\ pc = "failed"
    /\ log = <<"compute_slope">>

\* The last call reached compute_ph: called directly, or the read succeeded
ReachedComputePh ==
    \/ last.op = "compute_ph"
    \/ last.op = "get_ph" /\ last.reply.ok

\* C4 as stated: on a ready Calibration compute_ph returns a number and never
\* raises, for every temperature and voltage.
C4_NeverRaises == ReachedComputePh => last.out.ok

\* C4, amended: on a ready Calibration compute_ph returns a number and never
\* raises for every voltage and every temperature other than -273.15; at
\* -273.15 it raises ZeroDivisionError.
C4_RaisesOnlyAtAbsZero ==
    ReachedComputePh =>
        /\ last.out.ok <=> last.temp # abs_zero_temp
        /\ ~last.out.ok => last.out.exc = "ZeroDivisionError"

\* compute_ph answered for a voltage far outside the electrode's
C4_Witness ==
    /\ last.op = "compute_ph"
    /\ last.volt.val = FromInt(1000000000)
    /\ last.out.ok

\* The constructors ran to their end: both checks passed and the line was printed
FullyBuilt ==
    /\ pc = "ready"
    /\ DOMAIN calibration = {"slope", "offset"}
    /\ InBounds(calibration.slope, calibration.offset)
    /\ log = <<"compute_slope", "compute_offset", "print">>

\* C5: when construction fails no object reaches the caller, no voltage is
\* ever read and no call ever returns; an object, a read or a result exists
\* only after construction has ended with both checks passed.
C5_FailFast ==
    /\ [](pc = "failed" => ph = "None" /\ reads = 0 /\ calls = NoCalls /\ last = NoCall)
    /\ [](ph # "None" \/ reads > 0 \/ calls # NoCalls \/ last # NoCall => FullyBuilt)
    /\ [][pc = "failed" => pc' = "failed"]_vars

\* construction failed at the offset check, with slope and offset assigned
C5_Witness ==
    /\ pc = "failed"
    /\ exc = "Exception"
    /\ DOMAIN calibration = {"slope", "offset"}

\* What get_ph owes the caller for the reply the bus gave to this call
ExpectedOut(slope, offset) ==
    IF last.reply.ok
    THEN compute_ph(last.temp, offset, slope,
                    value_to_voltage(get_value(last.reply.val), settings.PH_ADC_REF_V))
    ELSE last.reply

\* C6: after k get_ph calls exactly k reads were made; a call returns what
\* compute_ph gives for the voltage read in that call, and a failed read
\* reaches the caller as it is, with no second read.
C6_OneReadPerCall ==
    /\ reads = calls.get_ph
    /\ last.op = "get_ph" => last.out = ExpectedOut(calibration.slope, calibration.offset)

\* two get_ph calls were made and the last one's read failed
C6_Witness ==
    /\ calls.get_ph = 2
    /\ last.op = "get_ph"
    /\ ~last.reply.ok
    /\ last.out = Raise("OSError")

\* C7: once construction has succeeded slope and offset never change, and
\* get_ph after any earlier calls, failed or not, returns compute_ph for the
\* slope and offset first computed from the settings.
C7_CalibrationNeverChanges ==
    /\ [][pc = "ready" => pc' = "ready" /\ calibration' = calibration]_vars
    /\ [](last.op = "get_ph" /\ last.reply.ok =>
              last.out = ExpectedOut(SettingsSlope.val, SettingsOffset))

\* a read succeeded after an earlier call
C7_Witness ==
    /\ calls.get_ph + calls.compute_ph = 2
    /\ last.op = "get_ph"
    /\ last.reply.ok
    /\ last.out.ok

(***************************************************************************)
(* Properties of PHTheory, under SpecTheory                                *)
(***************************************************************************)
AboveAbsZero(temp) == FGt(temp, abs_zero_temp)

\* C10 as stated: for all temperatures t > -273.15, ideal_slope(t) > 0, and
\* t1 < t2 implies ideal_slope(t1) < ideal_slope(t2).
C10_StrictlyIncreasing ==
    res.fn = "ideal_slope" /\ AboveAbsZero(args.temp) =>
        /\ FGt(res.r1, FZero)
        /\ FLt(args.temp, args.temp2) => FLt(res.r1, res.r2)

\* C10, amended: for all temperatures t > -273.15, ideal_slope(t) > 0, and
\* ideal_slope never decreases: t1 < t2 implies ideal_slope(t1) <= ideal_slope(t2)
\* (two temperatures that temp - abs_zero_temp rounds together get one value).
C10_PositiveNonDecreasing ==
    res.fn = "ideal_slope" /\ AboveAbsZero(args.temp) =>
        /\ FGt(res.r1, FZero)
        /\ FLt(args.temp, args.temp2) => FLe(res.r1, res.r2)

\* ideal_slope was applied to two temperatures above absolute zero and grew
C10_Witness ==
    /\ res.fn = "ideal_slope"
    /\ AboveAbsZero(args.temp)
    /\ FLt(args.temp, args.temp2)
    /\ FLt(res.r1, res.r2)

\* C9: for temp > -273.15 and ph1 # ph2, compute_slope(temp, ph1, v1, ph2, v2)
\* equals compute_slope(temp, ph2, v2, ph1, v1).
C9_SwapInvariant ==
    res.fn = "compute_slope" /\ AboveAbsZero(args.temp) /\ args.ph1 # args.ph2 =>
        /\ res.fwd.ok
        /\ res.swp.ok
        /\ res.fwd.val = res.swp.val

\* compute_slope was applied in both orders to points of distinct pH and
\* voltage: the slope is not 0
C9_Witness ==
    /\ res.fn = "compute_slope"
    /\ AboveAbsZero(args.temp)
    /\ args.ph1 # args.ph2
    /\ args.v1 # args.v2
    /\ res.fwd.ok
    /\ res.fwd.val # FZero

Tolerance == Dec(1, 1000000000)

\* |x - y| <= 1e-9
Close(x, y) == FLe(FAbs(FSub(x, y)), Tolerance)

\* C8 as stated: for all finite slope s # 0, temperature t > -273.15, pH p and
\* voltage v, compute_ph(t, compute_offset(t, s, p, v), s, v) is within 1e-9 of p.
C8_RoundTripAnywhere ==
    res.fn = "round_trip" /\ args.slope # FZero /\ AboveAbsZero(args.temp) =>
        /\ res.ph.ok
        /\ Close(res.ph.val, args.ph)

\* The magnitudes of a calibrated electrode: |v| <= 5 V, 0 <= t <= 100,
\* 0.8 <= |s| <= 1.2, 0 <= p <= 14
ElectrodeRange ==
    /\ FLe(FAbs(args.v), FromInt(5))
    /\ FLe(FromInt(0), args.temp) /\ FLe(args.temp, FromInt(100))
    /\ FLe(Dec(8, 10), FAbs(args.slope)) /\ FLe(FAbs(args.slope), Dec(12, 10))
    /\ FLe(FromInt(0), args.ph) /\ FLe(args.ph, FromInt(14))

\* C8, amended: for slope s # 0 and temperature t > -273.15 the round trip
\* compute_ph(t, compute_offset(t, s, p, v), s, v) is within 1e-9 of p for
\* |v| <= 5, 0 <= t <= 100, 0.8 <= |s| <= 1.2 and 0 <= p <= 14, and for p = 7 the
\* offset is v and the result is exactly 7.
C8_RoundTripInRange ==
    res.fn = "round_trip" /\ args.slope # FZero /\ AboveAbsZero(args.temp) =>
        /\ ElectrodeRange => res.ph.ok /\ Close(res.ph.val, args.ph)
        /\ args.ph = FromInt(7) => res.offset = args.v /\ res.ph = Ok(FromInt(7))

\* the round trip was made in the electrode's range from a pH other than 7
C8_Witness ==
    /\ res.fn = "round_trip"
    /\ args.slope # FZero
    /\ AboveAbsZero(args.temp)
    /\ ElectrodeRange
    /\ args.ph # FromInt(7)
    /\ res.ph.ok
    /\ res.offset # args.v

====
